---- MODULE Spec2Model ----
(***************************************************************************)
(* A model of the download/progress core of GoFileDownloader:              *)
(*   - ProgressManager (src/src/managers/progress_manager.py), on top of   *)
(*     the rich.progress.Progress operations it calls (add_task, update,   *)
(*     advance, remove_task, tasks);                                       *)
(*   - get_chunk_size / save_file_with_progress (src/download_utils.py);   *)
(*   - LoggerTable (src/src/managers/log_manager.py).                      *)
(*                                                                         *)
(* Several specifications share the variables: Spec (any sequence of       *)
(* ProgressManager calls), SpecSession (one URL after another, each item   *)
(* driven to the end), SpecDownload (download workers running              *)
(* save_file_with_progress concurrently, one step of update_task at a      *)
(* time), SpecChunk (get_chunk_size over the sizes around the thresholds)  *)
(* and SpecLog (LoggerTable).                                              *)
(***************************************************************************)
EXTENDS Integers, Sequences, FiniteSets, TLC

VARIABLES
    overall_progress,   \* ProgressManager.overall_progress: the overall Task objects, by id
    task_progress,      \* ProgressManager.task_progress: the item Task objects, by id
    overall_buffer,     \* ProgressConfig.overall_buffer: deque(maxlen=BUFFER_SIZE) of overall tasks
    num_tasks,          \* ProgressManager.num_tasks
    err,                \* the exception that escaped the last ProgressManager call, or "none"
    last_call,          \* the last ProgressManager call and its arguments (history)
    calls,              \* the number of ProgressManager calls made (history)
    worker,             \* the download workers: locals of save_file_with_progress / update_task
    disk,               \* the destination files: the chunks each one holds, in order
    row_buffer,         \* LoggerTable.row_buffer: deque(maxlen=max_rows)
    table,              \* the rows of the table _render_table built last
    logged,             \* every entry ever passed to LoggerTable.log (history)
    now,                \* the clock: seconds since the epoch (a midnight UTC)
    render,             \* the threads in LiveManager.update_log: locals of _render_table
    live,               \* the LiveManager and its rich Live, or None before it is made
    main,               \* main and process_urls: position, the URLs read, the next one
    files               \* the URL list file and the session log file: their lines

pm_vars == <<overall_progress, task_progress, overall_buffer, num_tasks>>
api_vars == <<err, last_call, calls>>
dl_vars == <<worker, disk>>
log_vars == <<row_buffer, table, logged, now>>
session_vars == <<render, live, main, files>>
vars == <<overall_progress, task_progress, overall_buffer, num_tasks, err, last_call, calls,
          worker, disk, row_buffer, table, logged, now, render, live, main, files>>

----------------------------------------------------------------------------
(* Program constants.                                                      *)

BUFFER_SIZE == 5
MAX_WORKERS == 3
KB == 1024
MB == 1024 * KB
THRESHOLDS ==
    << <<1 * MB, 8 * KB>>,
       <<10 * MB, 16 * KB>>,
       <<50 * MB, 64 * KB>>,
       <<100 * MB, 128 * KB>>,
       <<250 * MB, 256 * KB>> >>
LARGE_FILE_CHUNK_SIZE == 512 * KB
\* add_task(current_task=0, total=100): the default total of an item task
DEFAULT_TOTAL == 100
\* LoggerTable(max_rows=4)
MAX_ROWS == 4

(* Bounds of the model.                                                    *)

\* ProgressManager calls in one run of Spec
MaxCalls == 6
\* URLs in one run of SpecSession
MaxUrls == 7
\* SpecChunk tries the sizes within SizeDelta bytes of each threshold
SizeDelta == 5
\* LoggerTable.log calls in one run of SpecLog
MaxLogs == 6
\* seconds the clock advances in one run of SpecLog
MaxClock == 1
\* threads calling LiveManager.update_log in SpecRender
RenderThreads == 2
\* the longest session, in hours
MaxHours == 25

----------------------------------------------------------------------------
(* Python values.                                                          *)

\* None, and a value that is not None
None == <<>>
Some(x) == <<x>>

Abs(x) == IF x < 0 THEN -x ELSE x

RECURSIVE GCD(_, _)
GCD(a, b) == IF b = 0 THEN a ELSE GCD(b, a % b)

\* A number that need not be whole (the float completed = bytes / size * 100),
\* kept exact as a reduced fraction with a positive denominator.
Rat(n, d) ==
    LET g == GCD(Abs(n), Abs(d))
        s == IF d < 0 THEN -1 ELSE 1
    IN  [num |-> (s * n) \div g, den |-> (s * d) \div g]
Whole(n) == [num |-> n, den |-> 1]
RatGE(a, b) == a.num * b.den >= b.num * a.den
RatLT(a, b) == a.num * b.den < b.num * a.den
RatAdd(a, b) == Rat(a.num * b.den + b.num * a.den, a.den * b.den)

\* deque(maxlen=n).append(x): a full deque drops its leftmost element
DequeAppend(q, x, maxlen) ==
    IF Len(q) = maxlen THEN Tail(q) \o <<x>> ELSE Append(q, x)

----------------------------------------------------------------------------
(* rich.progress.Progress, as ProgressManager uses it.  A Progress keeps   *)
(* its Task objects in a dict by id; ids count up from 0 and are never      *)
(* reused.  A Task object is kept here after remove_task (present = FALSE), *)
(* since a caller may still hold a reference to it.  The fields pushed      *)
(* (appends to overall_buffer) and owner (the latest overall task when the   *)
(* item was added) are history.                                             *)

\* Progress.tasks: the tasks in the dict, in insertion order
Tasks(progress) == SelectSeq(progress, LAMBDA t : t.present)

\* Task.finished is finished_time is not None; finished_time is set once, by
\* update or advance, when completed >= total
Finishes(task, completed) == task.finished \/ RatGE(completed, Whole(task.total))

\* Progress.update(task_id, completed=, advance=, visible=) on one Task
ProgressUpdate(task, completed, advance, visible) ==
    LET c1 == IF advance # None THEN RatAdd(task.completed, Whole(advance[1]))
                                ELSE task.completed
        c2 == IF completed # None THEN completed[1] ELSE c1
    IN  [task EXCEPT !.completed = c2,
                     !.visible = IF visible # None THEN visible[1] ELSE @,
                     !.finished = Finishes(task, c2)]

\* Progress.advance(task_id, advance=1) on one Task (an overall task: its
\* completed and total are whole numbers)
ProgressAdvance(task) ==
    [task EXCEPT !.completed = @ + 1,
                 !.finished = @ \/ task.completed + 1 >= task.total]

----------------------------------------------------------------------------
(* ProgressManager.  Its state as one record, so that the methods are      *)
(* functions from state to state.                                          *)

PM == [overall |-> overall_progress, items |-> task_progress,
       buffer |-> overall_buffer, num_tasks |-> num_tasks]

SetPM(s) ==
    /\ overall_progress' = s.overall
    /\ task_progress' = s.items
    /\ overall_buffer' = s.buffer
    /\ num_tasks' = s.num_tasks

\* ProgressManager.__init__
EmptyPM == [overall |-> <<>>, items |-> <<>>, buffer |-> <<>>, num_tasks |-> 0]

\* the latest overall task, or None
Latest(s) ==
    LET ts == Tasks(s.overall)
    IN  IF ts = <<>> THEN None ELSE Some(ts[Len(ts)].id)

add_overall_task(s, n) ==
    [s EXCEPT !.num_tasks = n,
              !.overall = Append(@, [id |-> Len(s.overall), total |-> n,
                                     completed |-> 0, finished |-> FALSE,
                                     present |-> TRUE, pushed |-> 0])]

add_task(s, total) ==
    [s EXCEPT !.items = Append(@, [id |-> Len(s.items), total |-> total,
                                   completed |-> Whole(0), visible |-> TRUE,
                                   finished |-> FALSE, owner |-> Latest(s)])]

(* update_task and _update_overall_task, one step at a time.  A frame is   *)
(* the ProgressManager state with the locals of one call:                  *)
(*   pc, task_id, completed, advance, visible, current (the overall task   *)
(*   read at line 109), popped (the id popleft returned), exc.             *)

NewCall(task_id, completed, advance, visible) ==
    [pc |-> "update", task_id |-> task_id, completed |-> completed,
     advance |-> advance, visible |-> visible,
     current |-> None, popped |-> None, exc |-> "none"]

Raise(f, e) == [f EXCEPT !.loc.pc = "raised", !.loc.exc = e]

\* the arguments update_task passes on to Progress.update (lines 75-76)
HonoredCompleted_AdvanceWins(completed, advance) ==
    IF advance # 0 THEN None ELSE completed
HonoredCompleted(completed, advance) ==
    IF completed # None THEN completed ELSE None
HonoredAdvance(completed, advance) ==
    IF completed = None THEN Some(advance) ELSE None

\* lines 73-78
StepUpdate(f) ==
    LET i == f.loc.task_id + 1
    IN  [f EXCEPT !.pm.items[i] =
                      ProgressUpdate(@, HonoredCompleted(f.loc.completed, f.loc.advance),
                                     HonoredAdvance(f.loc.completed, f.loc.advance),
                                     Some(f.loc.visible)),
                  !.loc.pc = "read_overall"]

\* line 109: overall_progress.tasks[-1]
StepReadOverall(f) ==
    IF Latest(f.pm) = None
    THEN Raise(f, "IndexError")
    ELSE [f EXCEPT !.loc.current = Latest(f.pm), !.loc.pc = "advance"]

\* lines 112-114
StepAdvance_Unconditional(f) ==
    LET i == f.loc.task_id + 1
        o == f.loc.current[1] + 1
    IN  [f EXCEPT !.pm.overall[o] = ProgressAdvance(@),
                  !.pm.items[i] = ProgressUpdate(@, None, None, Some(FALSE)),
                  !.loc.pc = "track"]
\* variant: a finished item is counted but not hidden
StepAdvance_KeepsVisible(f) ==
    LET i == f.loc.task_id + 1
        o == f.loc.current[1] + 1
    IN  IF ~f.pm.items[i].finished
        THEN [f EXCEPT !.loc.pc = "track"]
        ELSE IF ~f.pm.overall[o].present
        THEN Raise(f, "KeyError")
        ELSE [f EXCEPT !.pm.overall[o] = ProgressAdvance(@),
                       !.loc.pc = "track"]

StepAdvance(f) ==
    LET i == f.loc.task_id + 1
        o == f.loc.current[1] + 1
    IN  IF ~f.pm.items[i].finished
        THEN [f EXCEPT !.loc.pc = "track"]
        ELSE IF ~f.pm.overall[o].present
        THEN Raise(f, "KeyError")
        ELSE [f EXCEPT !.pm.overall[o] = ProgressAdvance(@),
                       !.pm.items[i] = ProgressUpdate(@, None, None, Some(FALSE)),
                       !.loc.pc = "track"]

\* lines 117-118
StepTrack(f) ==
    LET o == f.loc.current[1] + 1
    IN  IF f.pm.overall[o].finished
        THEN [f EXCEPT !.pm.buffer = DequeAppend(@, f.loc.current[1], BUFFER_SIZE),
                       !.pm.overall[o].pushed = @ + 1,
                       !.loc.pc = "cleanup"]
        ELSE [f EXCEPT !.loc.pc = "cleanup"]

\* line 125
StepCleanup_Overflow(f) ==
    IF Len(f.pm.buffer) > BUFFER_SIZE
    THEN [f EXCEPT !.loc.pc = "popleft"]
    ELSE [f EXCEPT !.loc.pc = "return"]
StepCleanup(f) ==
    IF Len(f.pm.buffer) = BUFFER_SIZE
    THEN [f EXCEPT !.loc.pc = "popleft"]
    ELSE [f EXCEPT !.loc.pc = "return"]

\* variant: the newest entry of the backlog is taken
StepPopleft_Newest(f) ==
    IF f.pm.buffer = <<>>
    THEN Raise(f, "IndexError")
    ELSE [f EXCEPT !.loc.popped = Some(f.pm.buffer[Len(f.pm.buffer)]),
                   !.pm.buffer = SubSeq(@, 1, Len(@) - 1),
                   !.loc.pc = "remove"]

\* line 126: overall_buffer.popleft().id
StepPopleft(f) ==
    IF f.pm.buffer = <<>>
    THEN Raise(f, "IndexError")
    ELSE [f EXCEPT !.loc.popped = Some(Head(f.pm.buffer)),
                   !.pm.buffer = Tail(@),
                   !.loc.pc = "remove"]

\* line 127: overall_progress.remove_task(completed_overall_id)
StepRemove(f) ==
    LET o == f.loc.popped[1] + 1
    IN  IF ~f.pm.overall[o].present
        THEN Raise(f, "KeyError")
        ELSE [f EXCEPT !.pm.overall[o].present = FALSE, !.loc.pc = "return"]

Step(f) ==
    CASE f.loc.pc = "update" -> StepUpdate(f)
      [] f.loc.pc = "read_overall" -> StepReadOverall(f)
      [] f.loc.pc = "advance" -> StepAdvance(f)
      [] f.loc.pc = "track" -> StepTrack(f)
      [] f.loc.pc = "cleanup" -> StepCleanup(f)
      [] f.loc.pc = "popleft" -> StepPopleft(f)
      [] f.loc.pc = "remove" -> StepRemove(f)

RECURSIVE RunCall(_)
RunCall(f) ==
    CHOOSE r \in UNION {IF g.loc.pc \in {"return", "raised"} THEN {g} ELSE {RunCall(Step(g))} :
                          g \in {f}} : TRUE

\* one whole call of update_task by a single caller
update_task(s, task_id, completed, advance, visible) ==
    RunCall([pm |-> s, loc |-> NewCall(task_id, completed, advance, visible)])

----------------------------------------------------------------------------
(* Inputs.                                                                 *)

\* sub-task counts passed to add_overall_task
NumTasksArgs == {1, 3}
\* completed values passed to update_task: None, nothing done, half, all
CompletedArgs == {None, Some(Whole(0)), Some(Whole(DEFAULT_TOTAL))}
\* advance values passed to update_task
AdvanceArgs == {0, DEFAULT_TOTAL \div 2}

\* The ProgressManager after k URLs of one file each have been processed, one
\* after the other: what a session leaves behind for the next URL.
RECURSIVE AfterUrls(_)
AfterUrls(k) ==
    IF k = 0 THEN EmptyPM
    ELSE LET s == add_task(add_overall_task(AfterUrls(k - 1), 1), DEFAULT_TOTAL)
         IN  update_task(s, Len(s.items) - 1, Some(Whole(DEFAULT_TOTAL)), 0, TRUE).pm

NoWorkers == <<>>
NoFiles == <<>>

InitLog ==
    /\ row_buffer = <<>>
    /\ table = <<>>
    /\ logged = <<>>
    /\ now = 0

\* no LiveManager has been made
NoLive == [status |-> "none", view |-> <<>>, renders |-> 0, start_time |-> 0]

\* no session is running: no thread renders, no LiveManager, main not started
NoSession ==
    /\ render = <<>>
    /\ live = NoLive
    /\ main = [pc |-> "off"]
    /\ files = [urls |-> <<>>, log |-> <<>>]

InitPM(s) ==
    /\ overall_progress = s.overall
    /\ task_progress = s.items
    /\ overall_buffer = s.buffer
    /\ num_tasks = s.num_tasks

----------------------------------------------------------------------------
(* Spec: any sequence of add_overall_task, add_task and update_task calls  *)
(* by a single caller on a new ProgressManager.  An exception that escapes *)
(* a call ends the run.                                                    *)

Init ==
    /\ InitPM(EmptyPM)
    /\ err = "none"
    /\ last_call = [op |-> "init"]
    /\ calls = 0
    /\ worker = NoWorkers
    /\ disk = NoFiles
    /\ InitLog
    /\ NoSession

Called ==
    /\ err = "none"
    /\ calls < MaxCalls
    /\ calls' = calls + 1

AddOverallTask(n) ==
    /\ Called
    /\ SetPM(add_overall_task(PM, n))
    /\ last_call' = [op |-> "add_overall_task", num_tasks |-> n]
    /\ UNCHANGED <<err, dl_vars, log_vars, session_vars>>

AddTask(total) ==
    /\ Called
    /\ SetPM(add_task(PM, total))
    /\ last_call' = [op |-> "add_task", total |-> total]
    /\ UNCHANGED <<err, dl_vars, log_vars, session_vars>>

UpdateTask(task_id, completed, advance, visible) ==
    /\ Called
    /\ \E f \in {update_task(PM, task_id, completed, advance, visible)} :
         /\ SetPM(f.pm)
         /\ err' = f.loc.exc
    /\ last_call' = [op |-> "update_task", task_id |-> task_id,
                     completed |-> completed, advance |-> advance,
                     visible |-> visible,
                     before |-> task_progress[task_id + 1]]
    /\ UNCHANGED <<dl_vars, log_vars, session_vars>>

Next ==
    \/ \E n \in NumTasksArgs : AddOverallTask(n)
    \/ AddTask(DEFAULT_TOTAL)
    \/ \E task_id \in 0..(Len(task_progress) - 1) :
         \E completed \in CompletedArgs, advance \in AdvanceArgs, visible \in BOOLEAN :
           UpdateTask(task_id, completed, advance, visible)

Spec == Init /\ [][Next]_vars

----------------------------------------------------------------------------
(* SpecSession: the URLs of a session, one after the other.  A URL's       *)
(* overall task is added when every earlier one is finished, its items are  *)
(* added one by one, and each item is updated, in any order among the       *)
(* items, until it is finished; a finished item is not updated again.       *)

\* completed values a download reports: half way, then all
ProgressArgs == {Some(Whole(DEFAULT_TOTAL \div 2)), Some(Whole(DEFAULT_TOTAL))}

\* the ids of the item tasks added while overall task o was the latest
ItemsOf(o) == {i \in 1..Len(task_progress) : task_progress[i].owner = Some(o)}

SessionAddOverall(n) ==
    /\ err = "none"
    /\ Len(overall_progress) < MaxUrls
    /\ \A o \in 1..Len(overall_progress) : overall_progress[o].finished
    /\ SetPM(add_overall_task(PM, n))
    /\ UNCHANGED <<api_vars, dl_vars, log_vars, session_vars>>

SessionAddTask ==
    /\ err = "none"
    /\ Latest(PM) # None
    /\ LET o == overall_progress[Latest(PM)[1] + 1]
       IN  /\ ~o.finished
           /\ Cardinality(ItemsOf(o.id)) < o.total
    /\ SetPM(add_task(PM, DEFAULT_TOTAL))
    /\ UNCHANGED <<api_vars, dl_vars, log_vars, session_vars>>

SessionUpdate(task_id, completed) ==
    /\ err = "none"
    /\ ~task_progress[task_id + 1].finished
    /\ \E f \in {update_task(PM, task_id, completed, 0, TRUE)} :
         /\ SetPM(f.pm)
         /\ err' = f.loc.exc
    /\ UNCHANGED <<last_call, calls, dl_vars, log_vars, session_vars>>

NextSession ==
    \/ \E n \in NumTasksArgs : SessionAddOverall(n)
    \/ SessionAddTask
    \/ \E task_id \in 0..(Len(task_progress) - 1), completed \in ProgressArgs :
         SessionUpdate(task_id, completed)

SpecSession == Init /\ [][NextSession]_vars

----------------------------------------------------------------------------
(* download_utils.py.                                                      *)

\* get_chunk_size: the scan of THRESHOLDS from entry i on
RECURSIVE ScanThresholds(_, _)
ScanThresholds(file_size, i) ==
    IF i > Len(THRESHOLDS) THEN LARGE_FILE_CHUNK_SIZE
    ELSE IF file_size < THRESHOLDS[i][1] THEN THRESHOLDS[i][2]
    ELSE ScanThresholds(file_size, i + 1)

\* variant: a size equal to a threshold stays in the lower bracket
RECURSIVE ScanInclusive(_, _)
ScanInclusive(file_size, i) ==
    IF i > Len(THRESHOLDS) THEN LARGE_FILE_CHUNK_SIZE
    ELSE IF file_size <= THRESHOLDS[i][1] THEN THRESHOLDS[i][2]
    ELSE ScanInclusive(file_size, i + 1)

get_chunk_size_Inclusive(file_size) == ScanInclusive(file_size, 1)

\* variant: a negative size gets the large-file chunk size
get_chunk_size_NegativeFallback(file_size) ==
    IF file_size < 0 THEN LARGE_FILE_CHUNK_SIZE ELSE ScanThresholds(file_size, 1)

\* lines 13-19
get_chunk_size(file_size) == ScanThresholds(file_size, 1)

\* response.iter_content(chunk_size): the length of the next chunk of a body
\* with `left` bytes to come
NextChunkLen(chunk_size, left) == IF left < chunk_size THEN left ELSE chunk_size

\* A download: the response (header: Content-Length or None; body: its length
\* in bytes; left: the bytes not yet received), the item task, and the locals
\* of save_file_with_progress.  reported lists the completed values passed to
\* update_task (history).
NewDownload(header, body, task) ==
    [pc |-> "queued", header |-> header, body |-> body, left |-> body,
     task |-> task, file_size |-> 0, chunk_size |-> 0, total_downloaded |-> 0,
     warned |-> FALSE, reported |-> <<>>, exc |-> "none"]

\* what a destination holds before the download: nothing, or an older file
OldContent == << [src |-> "old", off |-> 0, len |-> 3 * KB] >>

Running == {f \in DOMAIN worker : worker[f].pc \in {"open", "iter"}}

\* lines 29-34
SaveBegin(f) ==
    /\ worker[f].pc = "queued"
    /\ Cardinality(Running) < MAX_WORKERS
    /\ LET file_size == IF worker[f].header = None THEN -1 ELSE worker[f].header[1]
       IN  worker' = [worker EXCEPT ![f].file_size = file_size,
                                    ![f].warned = (file_size = -1),
                                    ![f].chunk_size = get_chunk_size(file_size),
                                    ![f].total_downloaded = 0,
                                    ![f].pc = "open"]
    /\ UNCHANGED <<pm_vars, api_vars, disk, log_vars, session_vars>>

\* variant: the file is opened without truncation
OpenFile_Append(f) ==
    /\ worker[f].pc = "open"
    /\ worker' = [worker EXCEPT ![f].pc = "iter"]
    /\ UNCHANGED <<pm_vars, api_vars, disk, log_vars, session_vars>>

\* line 36: open(download_path, "wb")
OpenFile(f) ==
    /\ worker[f].pc = "open"
    /\ disk' = [disk EXCEPT ![f] = <<>>]
    /\ worker' = [worker EXCEPT ![f].pc = "iter"]
    /\ UNCHANGED <<pm_vars, api_vars, log_vars, session_vars>>

\* variant: the percentage is taken of the chunk size, not of the file size
WriteChunk_OverChunkSize(f) ==
    /\ worker[f].pc = "iter"
    /\ worker[f].left > 0
    /\ LET w == worker[f]
           n == NextChunkLen(w.chunk_size, w.left)
           total == w.total_downloaded + n
           written == [w EXCEPT !.left = @ - n, !.total_downloaded = total]
       IN  /\ disk' = [disk EXCEPT ![f] =
                          Append(@, [src |-> "body", off |-> w.body - w.left, len |-> n])]
           /\ IF w.file_size = 0
              THEN /\ worker' = [worker EXCEPT ![f] =
                                    [written EXCEPT !.pc = "failed",
                                                    !.exc = "ZeroDivisionError"]]
                   /\ UNCHANGED pm_vars
              ELSE \E completed \in {Rat(total * 100, w.chunk_size)} :
                     \E g \in {update_task(PM, w.task, Some(completed), 0, TRUE)} :
                       /\ SetPM(g.pm)
                       /\ worker' = [worker EXCEPT ![f] =
                             [written EXCEPT
                                 !.reported = Append(@, completed),
                                 !.pc = IF g.loc.exc = "none" THEN "iter" ELSE "failed",
                                 !.exc = g.loc.exc]]
    /\ UNCHANGED <<api_vars, log_vars, session_vars>>

\* lines 37-42, one turn of the loop: the next chunk is written and reported
WriteChunk(f) ==
    /\ worker[f].pc = "iter"
    /\ worker[f].left > 0
    /\ LET w == worker[f]
           n == NextChunkLen(w.chunk_size, w.left)
           total == w.total_downloaded + n
           written == [w EXCEPT !.left = @ - n, !.total_downloaded = total]
       IN  /\ disk' = [disk EXCEPT ![f] =
                          Append(@, [src |-> "body", off |-> w.body - w.left, len |-> n])]
           /\ IF w.file_size = 0
              THEN /\ worker' = [worker EXCEPT ![f] =
                                    [written EXCEPT !.pc = "failed",
                                                    !.exc = "ZeroDivisionError"]]
                   /\ UNCHANGED pm_vars
              ELSE \E completed \in {Rat(total * 100, w.file_size)} :
                     \E g \in {update_task(PM, w.task, Some(completed), 0, TRUE)} :
                       /\ SetPM(g.pm)
                       /\ worker' = [worker EXCEPT ![f] =
                             [written EXCEPT
                                 !.reported = Append(@, completed),
                                 !.pc = IF g.loc.exc = "none" THEN "iter" ELSE "failed",
                                 !.exc = g.loc.exc]]
    /\ UNCHANGED <<api_vars, log_vars, session_vars>>

\* line 37, the stream is exhausted: the file is closed and the function returns
EndOfStream(f) ==
    /\ worker[f].pc = "iter"
    /\ worker[f].left = 0
    /\ worker' = [worker EXCEPT ![f].pc = "done"]
    /\ UNCHANGED <<pm_vars, api_vars, disk, log_vars, session_vars>>

\* the function is left by an exception: the with statement closes the file
Failed(w, exc) == [w EXCEPT !.pc = "failed", !.exc = exc]

\* variant: the destination is deleted when the stream fails
StreamError_Cleanup(f) ==
    /\ worker[f].pc = "iter"
    /\ worker[f].left > 0
    /\ worker' = [worker EXCEPT ![f] = Failed(@, "ConnectionError")]
    /\ disk' = [disk EXCEPT ![f] = <<>>]
    /\ UNCHANGED <<pm_vars, api_vars, log_vars, session_vars>>

\* line 37: response.iter_content raises while bytes are still to come; nothing
\* in the function catches it
StreamError(f) ==
    /\ worker[f].pc = "iter"
    /\ worker[f].left > 0
    /\ worker' = [worker EXCEPT ![f] = Failed(@, "ConnectionError")]
    /\ UNCHANGED <<pm_vars, api_vars, disk, log_vars, session_vars>>

\* line 36: the destination cannot be opened; it is left as it was
OpenError(f) ==
    /\ worker[f].pc = "open"
    /\ worker' = [worker EXCEPT ![f] = Failed(@, "OSError")]
    /\ UNCHANGED <<pm_vars, api_vars, disk, log_vars, session_vars>>

\* line 39: file.write raises; the chunk is not counted and not reported
WriteError(f) ==
    /\ worker[f].pc = "iter"
    /\ worker[f].left > 0
    /\ worker' = [worker EXCEPT ![f] = Failed(@, "OSError")]
    /\ UNCHANGED <<pm_vars, api_vars, disk, log_vars, session_vars>>

----------------------------------------------------------------------------
(* SpecDownload: the files of one URL, at most MAX_WORKERS at a time, each *)
(* saved by save_file_with_progress; one turn of a worker's loop is one     *)
(* step.  The overall task and the item tasks have been added.              *)

\* the lengths of the bodies served: empty, and two chunks long
BodySizes == {0, 10000}

\* the ProgressManager once add_overall_task(n) and n add_task calls were made
RECURSIVE WithItems(_, _)
WithItems(s, n) == IF n = 0 THEN s ELSE add_task(WithItems(s, n - 1), DEFAULT_TOTAL)
UrlAdded(s, n) == WithItems(add_overall_task(s, n), n)

InitApi ==
    /\ err = "none"
    /\ last_call = [op |-> "init"]
    /\ calls = 0

InitDownload ==
    /\ \E n \in 1..MAX_WORKERS :
         /\ InitPM(UrlAdded(EmptyPM, n))
         /\ \E headers \in [1..n -> BOOLEAN], bodies \in [1..n -> BodySizes] :
              worker = [f \in 1..n |->
                          NewDownload(IF headers[f] THEN Some(bodies[f]) ELSE None,
                                      bodies[f], f - 1)]
         /\ \E old \in {<<>>, OldContent} : disk = [f \in 1..n |-> old]
    /\ InitApi
    /\ InitLog
    /\ NoSession

NextDownload ==
    \/ \E f \in DOMAIN worker : SaveBegin(f)
    \/ \E f \in DOMAIN worker : OpenFile(f)
    \/ \E f \in DOMAIN worker : WriteChunk(f)
    \/ \E f \in DOMAIN worker : EndOfStream(f)
    \/ \E f \in DOMAIN worker : StreamError(f)
    \/ \E f \in DOMAIN worker : OpenError(f)
    \/ \E f \in DOMAIN worker : WriteError(f)

SpecDownload == InitDownload /\ [][NextDownload]_vars

\* SpecDeclared: the same downloads, with a Content-Length that need not be
\* the length of the body received: none, zero, less, equal or more.
DeclaredSizes == {0, 5000, 10000, 20000}

\* the most files of one URL in SpecDeclared
MaxDeclared == 2

InitDeclared ==
    /\ \E n \in 1..MaxDeclared :
         /\ InitPM(UrlAdded(EmptyPM, n))
         /\ \E headers \in [1..n -> {None} \cup {Some(h) : h \in DeclaredSizes}],
               bodies \in [1..n -> BodySizes] :
              worker = [f \in 1..n |-> NewDownload(headers[f], bodies[f], f - 1)]
         /\ disk = [f \in 1..n |-> <<>>]
    /\ InitApi
    /\ InitLog
    /\ NoSession

SpecDeclared == InitDeclared /\ [][NextDownload]_vars

----------------------------------------------------------------------------
(* SpecChunk: the first lines of save_file_with_progress, which call        *)
(* get_chunk_size, for the Content-Length values around every threshold.    *)

SizeInputs ==
    {-1, -2, 0, 500 * KB, 2 * MB, 300 * MB}
        \cup {THRESHOLDS[i][1] + d : i \in 1..Len(THRESHOLDS), d \in (-SizeDelta)..SizeDelta}

InitChunk ==
    /\ InitPM(UrlAdded(EmptyPM, 1))
    /\ \E header \in {None} \cup {Some(s) : s \in SizeInputs} :
         worker = [f \in {1} |-> NewDownload(header, 0, 0)]
    /\ disk = [f \in {1} |-> <<>>]
    /\ InitApi
    /\ InitLog
    /\ NoSession

NextChunk == \E f \in DOMAIN worker : SaveBegin(f)

SpecChunk == InitChunk /\ [][NextChunk]_vars

----------------------------------------------------------------------------
(* SpecWorkers: up to MAX_WORKERS download workers in update_task at the   *)
(* same time, each on its own item task of the latest overall task.  Every  *)
(* Progress method runs under the Progress's lock and every deque method is *)
(* atomic; ProgressManager takes no lock of its own, so the workers         *)
(* interleave between the steps.  The session has processed 0 or            *)
(* BUFFER_SIZE - 1 URLs before.                                             *)

Idle(task_id) ==
    [NewCall(task_id, None, 0, TRUE) EXCEPT !.pc = "idle"]

InitWorkers ==
    /\ \E k \in {0, BUFFER_SIZE - 1}, n \in 1..MAX_WORKERS :
         LET s == UrlAdded(AfterUrls(k), n)
         IN  /\ InitPM(s)
             /\ worker = [w \in 1..n |-> Idle(Len(s.items) - n + w - 1)]
    /\ disk = NoFiles
    /\ InitApi
    /\ InitLog
    /\ NoSession

\* the worker's frame: the shared state with its own locals
Frame(w) == [pm |-> PM, loc |-> worker[w]]

\* the step is taken; a call that returned leaves the worker idle
Took(w, g) ==
    /\ SetPM(g.pm)
    /\ worker' = [worker EXCEPT ![w] =
                     IF g.loc.pc = "return" THEN Idle(g.loc.task_id) ELSE g.loc]
    /\ UNCHANGED <<api_vars, disk, log_vars, session_vars>>

\* update_task(task, completed=c) is called, with more progress than before
WorkerCall(w, completed) ==
    /\ worker[w].pc = "idle"
    /\ ~task_progress[worker[w].task_id + 1].finished
    /\ RatLT(task_progress[worker[w].task_id + 1].completed, completed[1])
    /\ worker' = [worker EXCEPT ![w] = NewCall(worker[w].task_id, completed, 0, TRUE)]
    /\ UNCHANGED <<pm_vars, api_vars, disk, log_vars, session_vars>>

WorkerUpdate(w) == worker[w].pc = "update" /\ Took(w, StepUpdate(Frame(w)))
WorkerReadOverall(w) == worker[w].pc = "read_overall" /\ Took(w, StepReadOverall(Frame(w)))
WorkerAdvance(w) == worker[w].pc = "advance" /\ Took(w, StepAdvance(Frame(w)))
WorkerTrack(w) == worker[w].pc = "track" /\ Took(w, StepTrack(Frame(w)))
WorkerCleanup(w) == worker[w].pc = "cleanup" /\ Took(w, StepCleanup(Frame(w)))
WorkerPopleft(w) == worker[w].pc = "popleft" /\ Took(w, StepPopleft(Frame(w)))
WorkerRemove(w) == worker[w].pc = "remove" /\ Took(w, StepRemove(Frame(w)))

NextWorkers ==
    \/ \E w \in DOMAIN worker, completed \in ProgressArgs : WorkerCall(w, completed)
    \/ \E w \in DOMAIN worker : WorkerUpdate(w)
    \/ \E w \in DOMAIN worker : WorkerReadOverall(w)
    \/ \E w \in DOMAIN worker : WorkerAdvance(w)
    \/ \E w \in DOMAIN worker : WorkerTrack(w)
    \/ \E w \in DOMAIN worker : WorkerCleanup(w)
    \/ \E w \in DOMAIN worker : WorkerPopleft(w)
    \/ \E w \in DOMAIN worker : WorkerRemove(w)

SpecWorkers == InitWorkers /\ [][NextWorkers]_vars

----------------------------------------------------------------------------
(* LoggerTable (log_manager.py) and SpecLog: any sequence of log calls,    *)
(* renders of the table and ticks of the clock.                             *)

\* datetime.now(timezone.utc).strftime("%H:%M:%S")
Timestamp(t) == <<(t \div 3600) % 24, (t \div 60) % 60, t % 60>>

\* the (event, details) pairs logged (live_manager.py lines 41 and 76-79; the
\* execution time in the details of "Script ended" is left out)
LogArgs ==
    { <<"Script started", "The script has started execution.">>,
      <<"Script ended", "The script has finished execution.">> }

\* variant: a full buffer keeps its entries
log_KeepOldest(buffer, entry) ==
    IF Len(buffer) = MAX_ROWS THEN buffer ELSE Append(buffer, entry)

\* line 43: row_buffer.append((timestamp, event, details))
log(buffer, entry) == DequeAppend(buffer, entry, MAX_ROWS)

\* LoggerTable.log
Log(event, details) ==
    /\ Len(logged) < MaxLogs
    /\ \E entry \in {<<Timestamp(now), event, details>>} :
         /\ row_buffer' = log(row_buffer, entry)
         /\ logged' = Append(logged, entry)
    /\ UNCHANGED <<pm_vars, api_vars, dl_vars, table, now, session_vars>>

\* LoggerTable._render_table: a new table with one row per buffered entry
RenderTable ==
    /\ table' = [i \in 1..Len(row_buffer) |-> row_buffer[i]]
    /\ UNCHANGED <<pm_vars, api_vars, dl_vars, row_buffer, logged, now, session_vars>>

Tick ==
    /\ now < MaxClock
    /\ now' = now + 1
    /\ UNCHANGED <<pm_vars, api_vars, dl_vars, row_buffer, table, logged, session_vars>>

InitLogger ==
    /\ InitPM(EmptyPM)
    /\ InitApi
    /\ worker = NoWorkers
    /\ disk = NoFiles
    /\ InitLog
    /\ NoSession

NextLog ==
    \/ \E args \in LogArgs : Log(args[1], args[2])
    \/ RenderTable
    \/ Tick

SpecLog == InitLogger /\ [][NextLog]_vars

----------------------------------------------------------------------------
(* SpecRender: threads in LiveManager.update_log at the same time.  Each   *)
(* logs its entry (one atomic deque.append) and then builds the log table   *)
(* in _render_table, one row of the loop over row_buffer at a time.  A      *)
(* deque iterator remembers the deque's mutation count and raises           *)
(* RuntimeError on the next fetch once the deque has been mutated; every    *)
(* append mutates, so the count is the number of entries logged.            *)

NotRendering == [pc |-> "idle", state |-> 0, i |-> 0, rows |-> <<>>, exc |-> "none"]

InitRender ==
    /\ InitPM(EmptyPM)
    /\ InitApi
    /\ worker = NoWorkers
    /\ disk = NoFiles
    /\ InitLog
    /\ render = [t \in 1..RenderThreads |-> NotRendering]
    /\ live = NoLive
    /\ main = [pc |-> "off"]
    /\ files = [urls |-> <<>>, log |-> <<>>]

\* live_manager.py line 64: logger_table.log(event, details)
UpdateLogCall(t, event, details) ==
    /\ render[t].pc = "idle"
    /\ Len(logged) < MaxLogs
    /\ \E entry \in {<<Timestamp(now), event, details>>} :
         /\ row_buffer' = log(row_buffer, entry)
         /\ logged' = Append(logged, entry)
    /\ render' = [render EXCEPT ![t].pc = "render"]
    /\ UNCHANGED <<pm_vars, api_vars, dl_vars, table, now, live, main, files>>

\* log_manager.py lines 111-114: a new table, and iter(self.row_buffer)
RenderBegin(t) ==
    /\ render[t].pc = "render"
    /\ render' = [render EXCEPT ![t] =
                     [pc |-> "iterate", state |-> Len(logged), i |-> 0,
                      rows |-> <<>>, exc |-> "none"]]
    /\ UNCHANGED <<pm_vars, api_vars, dl_vars, log_vars, live, main, files>>

\* log_manager.py lines 114-117: the next row is fetched and added, or the
\* loop ends and the table is returned
RenderNext(t) ==
    /\ render[t].pc = "iterate"
    /\ IF render[t].state # Len(logged)
       THEN /\ render' = [render EXCEPT ![t].pc = "raised", ![t].exc = "RuntimeError"]
            /\ table' = table
       ELSE IF render[t].i < Len(row_buffer)
       THEN /\ render' = [render EXCEPT ![t].rows = Append(@, row_buffer[render[t].i + 1]),
                                        ![t].i = @ + 1]
            /\ table' = table
       ELSE /\ render' = [render EXCEPT ![t] = NotRendering]
            /\ table' = render[t].rows
    /\ UNCHANGED <<pm_vars, api_vars, dl_vars, row_buffer, logged, now, live, main, files>>

NextRender ==
    \/ \E t \in DOMAIN render, args \in LogArgs : UpdateLogCall(t, args[1], args[2])
    \/ \E t \in DOMAIN render : RenderBegin(t)
    \/ \E t \in DOMAIN render : RenderNext(t)

SpecRender == InitRender /\ [][NextRender]_vars

----------------------------------------------------------------------------
(* SpecDriver: one run of main (main.py).  handle_download_process,        *)
(* read_file and write_file are not among the sources; they are modelled    *)
(* from the specification: a URL resolves to its files, which the pool      *)
(* downloads with save_file_with_progress; a file's error is caught and     *)
(* logged; read_file returns the lines, write_file(path) empties the file.  *)

\* the lines of URLs.txt at the start: none, one URL, two URLs
UrlLists == {<<>>, <<"url 1">>, <<"url 1", "url 2">>}
\* the files a URL resolves to
FilesPerUrl == {1, 2}
\* the length of every body served in SpecDriver: two chunks
DriverBody == 10000

\* LiveManager._compute_execution_time
ExecutionTime(elapsed) ==
    LET seconds == elapsed % 86400
    IN  <<seconds \div 3600, (seconds % 3600) \div 60, seconds % 60>>

\* LoggerTable.render_log_panel: the table _render_table builds, uninterrupted
Rendered(buffer) == [i \in 1..Len(buffer) |-> buffer[i]]

\* variant: the entry is logged and the view is left as it was
UpdateLog_NoRender(lv, event, details) ==
    \E entry \in {<<Timestamp(now), event, details>>} :
        /\ row_buffer' = log(row_buffer, entry)
        /\ logged' = Append(logged, entry)
        /\ table' = table
        /\ live' = lv

\* LiveManager.update_log by one thread alone: lv is the LiveManager
UpdateLog(lv, event, details) ==
    \E entry \in {<<Timestamp(now), event, details>>} :
        /\ row_buffer' = log(row_buffer, entry)
        /\ logged' = Append(logged, entry)
        /\ table' = Rendered(row_buffer')
        /\ live' = [lv EXCEPT !.view = table', !.renders = @ + 1]

InitDriver ==
    /\ InitPM(EmptyPM)
    /\ InitApi
    /\ worker = NoWorkers
    /\ disk = NoFiles
    /\ InitLog
    /\ render = <<>>
    /\ live = NoLive
    /\ main = [pc |-> "start", urls |-> <<>>, next |-> 1, base |-> 0,
               status |-> None]
    /\ \E urls \in UrlLists, old \in {<<>>, <<"an older session">>} :
         files = [urls |-> urls, log |-> old]

\* main.py lines 51-52: write_file(SESSION_FILE_PATH)
MainClearLog ==
    /\ main.pc = "start"
    /\ files' = [files EXCEPT !.log = <<>>]
    /\ main' = [main EXCEPT !.pc = "read"]
    /\ UNCHANGED <<pm_vars, api_vars, dl_vars, log_vars, render, live>>

\* variant: the URL list file is emptied as soon as it has been read
MainReadUrls_ClearsFile ==
    /\ main.pc = "read"
    /\ main' = [main EXCEPT !.urls = files.urls, !.pc = "init"]
    /\ files' = [files EXCEPT !.urls = <<>>]
    /\ UNCHANGED <<pm_vars, api_vars, dl_vars, log_vars, render, live>>

\* main.py lines 55-58: urls = read_file(URLS_FILE_PATH)
MainReadUrls ==
    /\ main.pc = "read"
    /\ main' = [main EXCEPT !.urls = files.urls, !.pc = "init"]
    /\ UNCHANGED <<pm_vars, api_vars, dl_vars, log_vars, render, live, files>>

\* main.py line 35, initialize_managers: LiveManager.__init__ renders the
\* first view, reads the clock and logs "Script started"
InitializeManagers ==
    /\ main.pc = "init"
    /\ UpdateLog([status |-> "new", view |-> Rendered(row_buffer), renders |-> 1,
                  start_time |-> now],
                 "Script started", "The script has started execution.")
    /\ main' = [main EXCEPT !.pc = "enter"]
    /\ UNCHANGED <<pm_vars, api_vars, dl_vars, now, render, files>>

\* main.py line 38: with live_manager.live
LiveEnter ==
    /\ main.pc = "enter"
    /\ live' = [live EXCEPT !.status = "started"]
    /\ main' = [main EXCEPT !.pc = "loop"]
    /\ UNCHANGED <<pm_vars, api_vars, dl_vars, log_vars, render, files>>

\* the downloads of the URL being handled
Current == {f \in DOMAIN worker : f > main.base}

\* main.py lines 39-40, handle_download_process(url, live_manager): the URL
\* resolves to n files; the overall task and the item tasks are added and the
\* files are handed to the pool
HandleBegin(n) ==
    /\ main.pc = "loop"
    /\ main.next <= Len(main.urls)
    /\ \E s \in {UrlAdded(PM, n)} :
         /\ SetPM(s)
         /\ worker' = worker \o [f \in 1..n |->
                          NewDownload(Some(DriverBody), DriverBody,
                                      Len(s.items) - n + f - 1)]
    /\ disk' = disk \o [f \in 1..n |-> <<>>]
    /\ main' = [main EXCEPT !.pc = "download", !.base = Len(worker)]
    /\ UNCHANGED <<api_vars, log_vars, render, live, files>>

\* variant: the file's error is not caught; it ends process_urls, and the with
\* statement stops the Live on the way out
CatchError_Propagates(f) ==
    /\ main.pc = "download"
    /\ worker[f].pc = "failed"
    /\ worker' = [worker EXCEPT ![f].pc = "raised"]
    /\ live' = [live EXCEPT !.status = "stopped"]
    /\ main' = [main EXCEPT !.pc = "crashed"]
    /\ UNCHANGED <<pm_vars, api_vars, disk, log_vars, render, files>>

\* handle_download_process: the error of one file is caught and logged
CatchError(f) ==
    /\ main.pc = "download"
    /\ worker[f].pc = "failed"
    /\ worker' = [worker EXCEPT ![f].pc = "caught"]
    /\ UpdateLog(live, "Download failed", worker[f].exc)
    /\ UNCHANGED <<pm_vars, api_vars, disk, now, render, main, files>>

\* handle_download_process returns: every file of the URL is saved or given up
HandleEnd ==
    /\ main.pc = "download"
    /\ \A f \in Current : worker[f].pc \in {"done", "caught"}
    /\ main' = [main EXCEPT !.pc = "loop", !.next = @ + 1]
    /\ UNCHANGED <<pm_vars, api_vars, dl_vars, log_vars, render, live, files>>

\* main.py line 42, LiveManager.stop lines 73-79: the last entry is logged
StopLog ==
    /\ main.pc = "loop"
    /\ main.next > Len(main.urls)
    /\ UpdateLog(live, "Script ended",
                 <<"The script has finished execution. Execution time:",
                   ExecutionTime(now - live.start_time)>>)
    /\ main' = [main EXCEPT !.pc = "halt"]
    /\ UNCHANGED <<pm_vars, api_vars, dl_vars, now, render, files>>

\* LiveManager.stop line 80: self.live.stop(); the with statement is left
LiveHalt ==
    /\ main.pc = "halt"
    /\ live' = [live EXCEPT !.status = "stopped"]
    /\ main' = [main EXCEPT !.pc = "clear"]
    /\ UNCHANGED <<pm_vars, api_vars, dl_vars, log_vars, render, files>>

\* main.py line 62: write_file(URLS_FILE_PATH)
MainClearUrls ==
    /\ main.pc = "clear"
    /\ files' = [files EXCEPT !.urls = <<>>]
    /\ main' = [main EXCEPT !.pc = "end", !.status = Some(0)]
    /\ UNCHANGED <<pm_vars, api_vars, dl_vars, log_vars, render, live>>

\* variant: the interrupt is swallowed and main goes on to its last line
Interrupt_RunsRest ==
    /\ main.pc \in {"loop", "download", "halt"}
    /\ live' = [live EXCEPT !.status = "stopped"]
    /\ main' = [main EXCEPT !.pc = "clear"]
    /\ UNCHANGED <<pm_vars, api_vars, dl_vars, log_vars, render, files>>

\* main.py lines 44-45: KeyboardInterrupt inside the with statement; the Live
\* is stopped on the way out and sys.exit(1) ends the process
Interrupt ==
    /\ main.pc \in {"loop", "download", "halt"}
    /\ live' = [live EXCEPT !.status = "stopped"]
    /\ main' = [main EXCEPT !.pc = "exit", !.status = Some(1)]
    /\ UNCHANGED <<pm_vars, api_vars, dl_vars, log_vars, render, files>>

\* a step of save_file_with_progress by a worker of the pool
Download ==
    /\ main.pc = "download"
    /\ \E f \in Current :
         \/ SaveBegin(f) \/ OpenFile(f) \/ WriteChunk(f) \/ EndOfStream(f)
         \/ StreamError(f) \/ OpenError(f) \/ WriteError(f)

NextDriver ==
    \/ MainClearLog
    \/ MainReadUrls
    \/ InitializeManagers
    \/ LiveEnter
    \/ \E n \in FilesPerUrl : HandleBegin(n)
    \/ Download
    \/ \E f \in DOMAIN worker : CatchError(f)
    \/ HandleEnd
    \/ StopLog
    \/ LiveHalt
    \/ MainClearUrls
    \/ Interrupt

SpecDriver == InitDriver /\ [][NextDriver]_vars

\* the scheduler runs whatever step of the session can be taken
SpecDriverFair == SpecDriver /\ WF_vars(NextDriver)

----------------------------------------------------------------------------
(* SpecElapsed: a session with no URL to handle that lasts any time: the   *)
(* LiveManager is made, the Live is entered, the clock moves on, stop logs *)
(* the execution time and halts the Live.                                  *)

\* what time.time() returns when the LiveManager is made, in whole seconds
StartTimes == {0, 3599}

\* how long the session lasts, in whole seconds
Durations ==
    {h * 3600 + m * 60 + s : h \in 0..MaxHours, m \in {0, 1, 59}, s \in {0, 1, 59}}

InitElapsed ==
    /\ InitPM(EmptyPM)
    /\ InitApi
    /\ worker = NoWorkers
    /\ disk = NoFiles
    /\ row_buffer = <<>>
    /\ table = <<>>
    /\ logged = <<>>
    /\ now \in StartTimes
    /\ render = <<>>
    /\ live = NoLive
    /\ main = [pc |-> "init", urls |-> <<>>, next |-> 1, base |-> 0,
               status |-> None]
    /\ files = [urls |-> <<>>, log |-> <<>>]

\* the wall clock while the Live runs: time.time() at line 93 is d seconds
\* after time.time() at line 40
Elapse(d) ==
    /\ main.pc = "loop"
    /\ now = live.start_time
    /\ d > 0
    /\ now' = now + d
    /\ UNCHANGED <<pm_vars, api_vars, dl_vars, row_buffer, table, logged, session_vars>>

NextElapsed ==
    \/ InitializeManagers
    \/ LiveEnter
    \/ \E d \in Durations : Elapse(d)
    \/ StopLog
    \/ LiveHalt

SpecElapsed == InitElapsed /\ [][NextElapsed]_vars

----------------------------------------------------------------------------
(* The claims.                                                             *)

RECURSIVE SumCompleted(_)
SumCompleted(progress) ==
    IF progress = <<>> THEN 0
    ELSE Head(progress).completed + SumCompleted(Tail(progress))

FinishedItems == {i \in 1..Len(task_progress) : task_progress[i].finished}
FinishedOverall == {o \in 1..Len(overall_progress) : overall_progress[o].finished}
RemovedOverall == {o \in 1..Len(overall_progress) : ~overall_progress[o].present}
Max(a, b) == IF a >= b THEN a ELSE b

\* C1 (as claimed): after any sequence of calls in which no exception escaped,
\* the overall tasks have been advanced once per finished item task, so the
\* completed-counts add up to the number of finished items; a second
\* update_task on a finished item adds nothing.
C1_EachItemCountedOnce ==
    err = "none" => SumCompleted(overall_progress) = Cardinality(FinishedItems)

\* C8: after update_task, the item's completed is the completed passed, whatever
\* advance was passed with it (also for completed = 0); advance is added to the
\* old value only when completed is None.
C8_CompletedTakesPrecedence ==
    last_call.op = "update_task" =>
        LET item == task_progress[last_call.task_id + 1]
        IN  IF last_call.completed # None
            THEN item.completed = last_call.completed[1]
            ELSE item.completed = RatAdd(last_call.before.completed,
                                         Whole(last_call.advance))

\* C8's case: completed = 0 passed together with a non-zero advance, on an item
\* that had progressed
C8_Witness ==
    /\ last_call.op = "update_task"
    /\ last_call.completed = Some(Whole(0))
    /\ last_call.advance # 0
    /\ last_call.before.completed # Whole(0)
    /\ task_progress[last_call.task_id + 1].completed = Whole(0)

C3_FinishedOnceInAnyOrder ==
    err = "none" =>
        \A o \in 1..Len(overall_progress) :
            LET t == overall_progress[o]
                done == ItemsOf(t.id) \cap FinishedItems
            IN  /\ t.completed = Cardinality(done)
                /\ t.finished = (Cardinality(done) = t.total)
                /\ t.pushed = IF t.finished THEN 1 ELSE 0

\* C3's case: add_overall_task("x", 3), three items, the last one added
\* finished first and the first one last
C3_Witness ==
    \E o \in 1..Len(overall_progress) :
        /\ overall_progress[o].total = 3
        /\ overall_progress[o].completed = 2
        /\ \E i \in ItemsOf(overall_progress[o].id) :
             /\ ~task_progress[i].finished
             /\ \A j \in ItemsOf(overall_progress[o].id) : j >= i

\* the overall task of the URL being downloaded: the one added last
ThisUrl == overall_progress[Len(overall_progress)]

\* the ProgressManager once update_task(id, completed=total) has been called,
\* one call after the other, for the items ids[1], ids[2], ...
RECURSIVE FinishAll(_, _)
FinishAll(s, ids) ==
    IF ids = <<>> THEN s
    ELSE FinishAll(update_task(s, Head(ids), Some(Whole(DEFAULT_TOTAL)), 0, TRUE).pm,
                   Tail(ids))

\* C4 (as claimed): when every worker has finished its item and left
\* update_task, no call has raised and the ProgressManager is in the state the
\* calls leave when made one after the other: completed = number of finished
\* items, the overall task appended to overall_buffer once.
C4_UpdatesSerialized ==
    (\A w \in DOMAIN worker :
        /\ worker[w].pc \in {"idle", "raised"}
        /\ task_progress[worker[w].task_id + 1].finished)
    => /\ \A w \in DOMAIN worker : worker[w].pc = "idle"
       /\ ThisUrl.completed = Cardinality(ItemsOf(ThisUrl.id) \cap FinishedItems)
       /\ ThisUrl.pushed = 1
       /\ PM = FinishAll(UrlAdded(AfterUrls(Len(overall_progress) - 1), Len(worker)),
                         [w \in 1..Len(worker) |-> worker[w].task_id])

\* C5 (as claimed): once save_file_with_progress has returned for every file
\* of the URL, each served with Content-Length = body size (any size >= 0),
\* the overall task has completed = n and is Finished.
C5_AllSavedThenFinished ==
    (\A f \in DOMAIN worker :
        /\ worker[f].pc = "done"
        /\ worker[f].header = Some(worker[f].body))
    => /\ ThisUrl.completed = ThisUrl.total
       /\ ThisUrl.finished

\* the chunk size of the smallest threshold strictly greater than s, or the
\* large-file chunk size when no threshold is greater
Bracket(s) ==
    LET above == {i \in 1..Len(THRESHOLDS) : THRESHOLDS[i][1] > s}
    IN  IF above = {} THEN LARGE_FILE_CHUNK_SIZE
        ELSE THRESHOLDS[CHOOSE i \in above :
                          \A j \in above : THRESHOLDS[i][1] <= THRESHOLDS[j][1]][2]

\* C6: for a size s >= 0, the chunk size save_file_with_progress reads with is
\* that of the smallest threshold strictly greater than s, and 512 KB from
\* 250 MB on; a size equal to a threshold is in the next bracket (1 MB and
\* 2 MB give 16 KB, 500 KB gives 8 KB).
C6_ChunkSizeOfBracket ==
    \A f \in DOMAIN worker :
        (worker[f].pc # "queued" /\ worker[f].file_size >= 0) =>
            LET s == worker[f].file_size
                c == worker[f].chunk_size
            IN  /\ c = Bracket(s)
                /\ s >= 250 * MB => c = 512 * KB
                /\ s \in {1 * MB, 2 * MB} => c = 16 * KB
                /\ s = 500 * KB => c = 8 * KB
                /\ \A i \in 1..(Len(THRESHOLDS) - 1) :
                     s = THRESHOLDS[i][1] => c = THRESHOLDS[i + 1][2]

\* C6's case: a size equal to the first threshold
C6_Witness ==
    \E f \in DOMAIN worker :
        /\ worker[f].pc = "open"
        /\ worker[f].file_size = 1 * MB
        /\ worker[f].chunk_size = 16 * KB

\* C7 (as claimed): a negative or unknown size yields LARGE_FILE_CHUNK_SIZE.
C7_NegativeFallsThrough ==
    \A f \in DOMAIN worker :
        (worker[f].pc # "queued" /\ worker[f].file_size < 0) =>
            worker[f].chunk_size = LARGE_FILE_CHUNK_SIZE

\* C7 (amended): get_chunk_size yields a chunk size for every size; a missing
\* Content-Length is the size -1, and a negative size is below the first
\* threshold and yields the first bracket's chunk size, 8 KB.
C7_NegativeFirstBracket ==
    \A f \in DOMAIN worker :
        worker[f].pc # "queued" =>
            /\ worker[f].pc = "open"
            /\ worker[f].chunk_size
                 \in {THRESHOLDS[i][2] : i \in 1..Len(THRESHOLDS)} \cup {LARGE_FILE_CHUNK_SIZE}
            /\ worker[f].header = None => worker[f].file_size = -1
            /\ worker[f].file_size < 0 => worker[f].chunk_size = 8 * KB

\* C7's case: no Content-Length
C7_Witness ==
    \E f \in DOMAIN worker :
        /\ worker[f].pc = "open"
        /\ worker[f].header = None
        /\ worker[f].file_size = -1
        /\ worker[f].chunk_size = 8 * KB

Min(a, b) == IF a <= b THEN a ELSE b

\* C9: the row buffer holds the last min(n, max_rows) of the n entries logged,
\* in the order logged; a rendered table shows a run of consecutive entries.
C9_LastRowsInOrder ==
    LET n == Len(logged)
        kept == Min(n, MAX_ROWS)
    IN  /\ row_buffer = SubSeq(logged, n - kept + 1, n)
        /\ \E i \in 1..(n + 1) : table = SubSeq(logged, i, i + Len(table) - 1)

\* C9's case: six entries logged, not all alike; entries 3 to 6 are left
C9_Witness ==
    /\ Len(logged) = 6
    /\ row_buffer = <<logged[3], logged[4], logged[5], logged[6]>>
    /\ logged[1] # logged[3]
    /\ logged[3] # logged[4]
    /\ table = row_buffer

\* the bytes the first j segments of a file hold
RECURSIVE Bytes(_, _)
Bytes(content, j) == IF j = 0 THEN 0 ELSE Bytes(content, j - 1) + content[j].len

\* C10: the open truncates the destination; the chunks are written in arrival
\* order, so the file holds the body's bytes from 0 up to the bytes received and
\* the whole body on return; after each chunk written update_task has been
\* called once, with (cumulative bytes / file_size) * 100.
C10_ChunksWrittenInOrder ==
    \A f \in DOMAIN worker :
        worker[f].pc \in {"iter", "done"} =>
            /\ \A j \in 1..Len(disk[f]) :
                 /\ disk[f][j].src = "body"
                 /\ disk[f][j].off = Bytes(disk[f], j - 1)
                 /\ disk[f][j].len > 0
            /\ Bytes(disk[f], Len(disk[f])) = worker[f].total_downloaded
            /\ worker[f].pc = "done" => worker[f].total_downloaded = worker[f].body
            /\ Len(worker[f].reported) = Len(disk[f])
            /\ \A j \in 1..Len(disk[f]) :
                 worker[f].reported[j] = Rat(Bytes(disk[f], j) * 100, worker[f].file_size)

\* C10's case: a download of two chunks has returned, over a destination that
\* held an older file (as the destination not yet opened still does)
C10_Witness ==
    \E f, g \in DOMAIN worker :
        /\ worker[f].pc = "done"
        /\ Len(disk[f]) = 2
        /\ worker[g].pc = "queued"
        /\ disk[g] = OldContent

\* C11 (as claimed): without a Content-Length header the condition is logged,
\* every chunk is written, the function returns without an exception of its
\* own making, and no progress value is passed to update_task for the item.
C11_UnknownLengthNoPercentage ==
    \A f \in DOMAIN worker :
        (worker[f].header = None /\ worker[f].pc \in {"iter", "done"}) =>
            /\ worker[f].warned
            /\ Bytes(disk[f], Len(disk[f])) = worker[f].total_downloaded
            /\ worker[f].pc = "done" => worker[f].total_downloaded = worker[f].body
            /\ worker[f].reported = <<>>

C18_ReportedStrictlyIncreasing ==
    \A f \in DOMAIN worker :
        \A j \in 1..(Len(worker[f].reported) - 1) :
            RatLT(worker[f].reported[j], worker[f].reported[j + 1])

\* C15 (as claimed): an item's finishing advances the overall task that was
\* the latest when the item was added, and no other; so, every item having
\* been added under an overall task, an overall task none of whose own items
\* is finished has completed = 0.
C15_OnlyOwnerAdvanced ==
    (err = "none" /\ \A i \in 1..Len(task_progress) : task_progress[i].owner # None) =>
        \A o \in 1..Len(overall_progress) :
            ItemsOf(overall_progress[o].id) \cap FinishedItems = {}
                => overall_progress[o].completed = 0

\* C16: an overall task is removed only once Finished (and appended to the
\* backlog); Finished and removed are for good; the tasks finish in the order
\* added and the removed ones are the first of the finished ones.
C16_ActiveFinishedEvicted ==
    /\ [](\A o \in 1..Len(overall_progress) :
            /\ ~overall_progress[o].present =>
                 (overall_progress[o].finished /\ overall_progress[o].pushed >= 1)
            /\ \A p \in 1..(o - 1) :
                 (overall_progress[p].finished /\ ~overall_progress[o].present)
                     => ~overall_progress[p].present)
    /\ [][\A o \in 1..Len(overall_progress) :
            /\ overall_progress[o].finished => overall_progress'[o].finished
            /\ ~overall_progress[o].present => ~overall_progress'[o].present
            /\ (~overall_progress[o].finished /\ overall_progress'[o].finished) =>
                 \A p \in 1..Len(overall_progress) :
                     overall_progress[p].finished => p < o]_vars

\* C16's case: six overall tasks have finished; the first two were removed,
\* the third is still tracked
C16_Witness ==
    /\ Len(overall_progress) = 6
    /\ \A o \in 1..6 : overall_progress[o].finished
    /\ ~overall_progress[1].present
    /\ ~overall_progress[2].present
    /\ overall_progress[3].present
    /\ overall_buffer = <<2, 3, 4, 5>>

\* C17: when update_task has returned, every finished item is invisible,
\* whatever visible was passed, and the completed-counts cover the finished
\* items; the item updated, if not finished, has the visibility passed.
C17_FinishedItemsHidden ==
    (last_call.op = "update_task" /\ err = "none") =>
        /\ \A i \in FinishedItems : ~task_progress[i].visible
        /\ SumCompleted(overall_progress) >= Cardinality(FinishedItems)
        /\ LET item == task_progress[last_call.task_id + 1]
           IN  ~item.finished => item.visible = last_call.visible

\* C17's case: update_task(t, completed=total, visible=True) has finished item t
C17_Witness ==
    /\ last_call.op = "update_task"
    /\ err = "none"
    /\ last_call.visible
    /\ ~last_call.before.finished
    /\ task_progress[last_call.task_id + 1].finished
    /\ ~task_progress[last_call.task_id + 1].visible

\* what row_buffer held when n entries had been logged
BufferAfter(n) == SubSeq(logged, n - Min(n, MAX_ROWS) + 1, n)

\* C19 (as claimed): with other threads logging while a thread renders, no
\* render raises, and a table built is what row_buffer held at some instant.
C19_RenderToleratesLogging ==
    /\ \A t \in DOMAIN render : render[t].pc # "raised"
    /\ \E n \in 0..Len(logged) : table = BufferAfter(n)

\* the overall task (by position) a download belongs to
UrlOf(f) == task_progress[worker[f].task + 1].owner[1] + 1

Failures == {f \in DOMAIN worker : worker[f].pc \in {"failed", "caught"}}

\* C13: a file's error is caught and logged and changes nothing of the other
\* downloads or of the URLs to come; a session in which a file has failed goes
\* on to its end (or is interrupted by the user), and at the end every URL read
\* has been handled, every file is saved or given up with its error logged,
\* the Live is stopped and the URL list is empty.
C13_FileErrorNotFatal ==
    /\ [](main.pc = "end" =>
            /\ main.next = Len(main.urls) + 1
            /\ Len(overall_progress) = Len(main.urls)
            /\ \A f \in DOMAIN worker : worker[f].pc \in {"done", "caught"}
            /\ Cardinality(Failures) =
                 Cardinality({j \in 1..Len(logged) : logged[j][2] = "Download failed"})
            /\ live.status = "stopped"
            /\ files.urls = <<>>)
    /\ [][\A f \in DOMAIN worker :
            (worker[f].pc # worker'[f].pc /\ worker'[f].pc \in {"failed", "caught"}) =>
                /\ \A g \in DOMAIN worker \ {f} : worker'[g] = worker[g] /\ disk'[g] = disk[g]
                /\ main' = main
                /\ live'.status = live.status]_vars
    /\ ((Failures # {}) ~> (main.pc \in {"end", "exit"}))

\* C13's case: the session has ended; a file of the first URL failed, the other
\* one was saved, and the second URL was handled after that
C13_Witness ==
    /\ main.pc = "end"
    /\ Len(main.urls) = 2
    /\ \E f, g, h \in DOMAIN worker :
         /\ UrlOf(f) = 1 /\ worker[f].pc = "caught"
         /\ UrlOf(g) = 1 /\ worker[g].pc = "done"
         /\ UrlOf(h) = 2 /\ worker[h].pc = "done"

\* C14: the session log is emptied before the URL list is read and before
\* anything is processed; the list read is never read again; the URL list file
\* keeps its lines until every URL read has been handled and is empty at the
\* end; with an empty list nothing is downloaded.
C14_FilesClearedInOrder ==
    /\ [](/\ main.pc # "start" => files.log = <<>>
          /\ main.pc \in {"start", "read"} =>
               (main.urls = <<>> /\ worker = <<>> /\ overall_progress = <<>>)
          /\ main.pc \notin {"start", "read", "end"} => files.urls = main.urls
          /\ main.pc \in {"clear", "end"} =>
               (main.next = Len(main.urls) + 1 /\ Len(overall_progress) = Len(main.urls))
          /\ main.pc = "end" => files.urls = <<>>
          /\ main.urls = <<>> => (worker = <<>> /\ overall_progress = <<>>))
    /\ [][main.pc \notin {"start", "read"} => main'.urls = main.urls]_vars

\* C14's case: two URLs were read and handled, and the list is empty at the end
C14_Witness ==
    /\ main.pc = "end"
    /\ Len(main.urls) = 2
    /\ Len(overall_progress) = 2
    /\ files.urls = <<>>

\* C20: every update_log is followed by one render, and the view set on the
\* Live shows the buffer with the new entry last; when stop halts the Live the
\* view already shows "Script ended"; nothing is logged or rendered afterwards.
C20_LogThenRender ==
    /\ [](live.status # "none" =>
            /\ live.renders = Len(logged) + 1
            /\ live.view = Rendered(row_buffer)
            /\ live.view[Len(live.view)] = logged[Len(logged)]
            /\ main.pc \in {"halt", "clear", "end"} =>
                 live.view[Len(live.view)][2] = "Script ended"
            /\ main.pc \in {"clear", "end"} => live.status = "stopped")
    /\ [][/\ live.status = "stopped" =>
               (logged' = logged /\ live' = live /\ row_buffer' = row_buffer)
          /\ (live.status # "stopped" /\ live'.status = "stopped" /\ main'.pc = "clear") =>
               live.view[Len(live.view)][2] = "Script ended"
          /\ (live.status # "none" /\ logged' # logged) =>
               (Len(logged') = Len(logged) + 1 /\ live'.renders = live.renders + 1)]_vars

\* C20's case: the session has ended after a logged failure; the view shows
\* "Script ended" last
C20_Witness ==
    /\ main.pc = "end"
    /\ live.status = "stopped"
    /\ Len(logged) >= 3
    /\ logged[Len(logged)][2] = "Script ended"
    /\ live.view[Len(live.view)] = logged[Len(logged)]

\* the hours, minutes and seconds in the details of the last entry logged
ReportedTime == logged[Len(logged)][3][2]

\* C21: the time LiveManager.stop reports is the elapsed whole seconds split
\* into hours, minutes and seconds: 0 <= m < 60, 0 <= s < 60 and
\* h*3600 + m*60 + s is the elapsed time, for every duration.
C21_ElapsedSplitExactly ==
    main.pc \in {"halt", "clear"} =>
        /\ logged[Len(logged)][2] = "Script ended"
        /\ ReportedTime[2] \in 0..59
        /\ ReportedTime[3] \in 0..59
        /\ ReportedTime[1] * 3600 + ReportedTime[2] * 60 + ReportedTime[3]
             = now - live.start_time

\* C22: once an overall task has been added, update_task never fails in its
\* eviction bookkeeping: no exception escapes it, the finished backlog holds no
\* overall task twice, and there is a latest overall task for line 109 to read.
C22_EvictionNeverFails ==
    Len(overall_progress) > 0 =>
        /\ err = "none"
        /\ \A i, j \in DOMAIN overall_buffer :
             overall_buffer[i] = overall_buffer[j] => i = j
        /\ Latest(PM) # None

\* C23: an item fed by save_file_with_progress is finished only when the bytes
\* written to the destination are at least the declared Content-Length:
\* finished implies file_size > 0 and total_downloaded >= file_size.
C23_FinishedOnlyWhenComplete ==
    \A f \in DOMAIN worker :
        task_progress[worker[f].task + 1].finished =>
            /\ worker[f].file_size > 0
            /\ worker[f].total_downloaded >= worker[f].file_size
            /\ Bytes(disk[f], Len(disk[f])) = worker[f].total_downloaded

\* C23's case: one file is finished by its last chunk, and one whose length
\* was not declared has been saved whole and is not finished
C23_Witness ==
    \E f, g \in DOMAIN worker :
        /\ worker[f].pc = "done"
        /\ Len(worker[f].reported) = 2
        /\ task_progress[worker[f].task + 1].finished
        /\ ~task_progress[worker[f].task + 1].visible
        /\ worker[g].pc = "done"
        /\ worker[g].file_size = -1
        /\ worker[g].total_downloaded = worker[g].body
        /\ worker[g].body > 0
        /\ ~task_progress[worker[g].task + 1].finished

\* the URLs handle_download_process has been called for
Begun == Len(overall_progress)

\* C24: a KeyboardInterrupt while URL k is handled ends the process with
\* status 1: no later URL is begun, nothing of main runs afterwards, and the
\* URL list file is as it was read, the unprocessed URLs included.
C24_InterruptLeavesUrlFile ==
    /\ [](main.pc = "exit" =>
            /\ main.status = Some(1)
            /\ Begun <= main.next
            /\ files.urls = main.urls
            /\ \A i \in main.next..Len(main.urls) : files.urls[i] = main.urls[i])
    /\ [][/\ main.pc # "exit"
          /\ main'.pc = "exit" =>
               (files' = files /\ Begun' = Begun /\ main'.next = main.next
                /\ worker' = worker /\ disk' = disk)
          /\ (main'.pc = "clear" /\ main.pc # "clear") =>
               (main.pc = "halt" /\ main.next > Len(main.urls))
          /\ files'.urls # files.urls => main.pc = "clear"]_vars

\* C24's case: the interrupt came while the first of two URLs was being
\* downloaded; the second URL is still in the file
C24_Witness ==
    /\ main.pc = "exit"
    /\ main.status = Some(1)
    /\ main.next = 1
    /\ Len(main.urls) = 2
    /\ Begun = 1
    /\ \E f \in Current : worker[f].pc = "iter" /\ worker[f].total_downloaded > 0
    /\ files.urls = <<"url 1", "url 2">>

====
